---- MODULE Spec2Model ----
(***************************************************************************)
(* Model of the energy-dashboard backend: the Express handlers             *)
(* GET /api/myenergi and GET /api/foxess in every iteration kept in the    *)
(* repository (src/api/index.js and the three unnamed source files).       *)
(*                                                                         *)
(* Strings are sequences of atoms (an atom is a run of characters with no  *)
(* separator in it), so that template literals are concatenations and the  *)
(* challenge parser works on the characters it really splits on.           *)
(* A digest is kept symbolic: MD5(x) is x between two bracket atoms.       *)
(***************************************************************************)
EXTENDS Integers, Sequences, FiniteSets, TLC

VARIABLES build, env, route, pc, loc, sent, got, res, raw, kw

vars == <<build, env, route, pc, loc, sent, got, res, raw, kw>>

(***************************************************************************)
(* Bounds                                                                  *)
(***************************************************************************)
\* largest |raw diversion value| (watts) drawn for the unit conversion
MaxRaw == 1300
\* largest value of the clock read by new Date().getTime()
MaxTime == 2

(***************************************************************************)
(* JavaScript values                                                       *)
(***************************************************************************)
\* the value of a missing header, environment variable or parameter
Undefined == <<"<undefined>">>

\* !v for a string-or-undefined value
\* a test that takes only a missing value as false, not the empty string
FalsyUndefinedOnly(v) == v = Undefined

Falsy(v) == v = Undefined \/ v = <<>>

\* `${v}` : undefined is rendered as the text "undefined"
Tpl(v) == IF v = Undefined THEN <<"undefined">> ELSE v

\* JSON values of a response body
Num(n) == [t |-> "number", v |-> n]
Text(s) == [t |-> "string", s |-> s]
Absent == [t |-> "undefined"]
NaNText == <<"NaN">>

\* crypto.createHash('md5').update(x).digest('hex')
MD5(x) == <<"md5(">> \o x \o <<")">>

Digit(d) == CASE d = 0 -> "0" [] d = 1 -> "1" [] d = 2 -> "2" [] d = 3 -> "3"
              [] d = 4 -> "4" [] d = 5 -> "5" [] d = 6 -> "6" [] d = 7 -> "7"
              [] d = 8 -> "8" [] d = 9 -> "9"

RECURSIVE Digits(_)
\* String(n) of a non-negative integer
Digits(n) == IF n < 10 THEN <<Digit(n)>> ELSE Digits(n \div 10) \o <<Digit(n % 10)>>

\* String(n) of an integer
NumberToString(n) == IF n < 0 THEN <<"-">> \o Digits(0 - n) ELSE Digits(n)

(***************************************************************************)
(* Number.prototype.toFixed(2)                                             *)
(***************************************************************************)
Abs(n) == IF n < 0 THEN 0 - n ELSE n

RECURSIVE Pow2Mod1000(_)
Pow2Mod1000(k) == IF k = 0 THEN 1 ELSE (2 * Pow2Mod1000(k - 1)) % 1000

RECURSIVE ScaleUp(_)
\* least j with a * 2^j >= 1000, for 1 <= a
ScaleUp(a) == IF a >= 1000 THEN 0 ELSE 1 + ScaleUp(2 * a)

RECURSIVE ScaleDown(_)
\* greatest e with 1000 * 2^e <= a, for a >= 1000
ScaleDown(a) == IF a < 2000 THEN 0 ELSE 1 + ScaleDown(a \div 2)

\* the binary exponent of the quotient a / 1000, a >= 1
QuotientExponent(a) == IF a >= 1000 THEN ScaleDown(a) ELSE 0 - ScaleUp(a)

\* The IEEE-754 double a / 1000 compared with the exact quotient: -1 when the
\* double lies below it, 0 when the quotient is representable, 1 when above.
\* The 53-bit significand is round(a * 2^k / 1000), k = 52 - exponent.
DoubleError(a) ==
    LET k == 52 - QuotientExponent(a)
        r == (a * Pow2Mod1000(k)) % 1000
    IN  IF r = 0 THEN 0 ELSE IF r < 500 THEN 0 - 1 ELSE 1

\* a conversion that drops the third decimal instead of rounding
HundredthsTruncated(a) == a \div 10

\* the integer n for which n / 100 is closest to the double a / 1000, the
\* larger one on a tie (ECMAScript toFixed, step "pick the larger n")
Hundredths(a) ==
    LET q == a \div 10
        d == a % 10
    IN  IF d < 5 THEN q
        ELSE IF d > 5 THEN q + 1
        ELSE IF DoubleError(a) < 0 THEN q ELSE q + 1

\* the two-decimal rendering of n hundredths
TwoDecimals(n) == Digits(n \div 100) \o <<".">>
                    \o <<Digit((n % 100) \div 10), Digit(n % 10)>>

\* (w / 1000).toFixed(2) for an integer w
MilliToFixed2(w) ==
    IF w = 0 THEN TwoDecimals(0)
    ELSE IF w < 0 THEN <<"-">> \o TwoDecimals(Hundredths(Abs(w)))
    ELSE TwoDecimals(Hundredths(w))

\* (n).toFixed(2) for an integer n
IntToFixed2(n) ==
    IF n < 0 THEN <<"-">> \o TwoDecimals(100 * Abs(n)) ELSE TwoDecimals(100 * n)

(***************************************************************************)
(* The iterations of the server kept in the repository                     *)
(***************************************************************************)
Builds == {"index.js#1", "index.js#2", "index.js#3",
           "part_000#1", "part_000#2", "part_000#3",
           "part_001#1", "part_001#2", "part_002#1"}

\* which performMyenergiRequest / app.get('/api/myenergi') a build registers
MyenergiKind(b) ==
    CASE b = "index.js#1" -> "director_auth"
      [] b = "part_000#2" -> "director"
      [] b = "part_002#1" -> "director_fetch"
      [] b \in {"part_000#1", "part_000#3"} -> "fixed"
      [] b = "part_001#2" -> "fixed_fetch"
      [] OTHER -> "none"

\* which app.get('/api/foxess') a build registers
FoxKind(b) ==
    CASE b \in {"index.js#1", "index.js#2", "part_000#1", "part_000#2", "part_002#1"}
            -> "records"
      [] b = "index.js#3" -> "records_raw"
      [] b = "part_001#1" -> "errno"
      [] OTHER -> "flat"

\* the routes a build registers with app.get
Routes(b) == IF MyenergiKind(b) = "none" THEN {"/api/foxess"}
             ELSE {"/api/myenergi", "/api/foxess"}

Reqs == {"r1", "r2"}

(***************************************************************************)
(* process.env                                                             *)
(***************************************************************************)
Envs == [MYENERGI_EDDI_SN : {Undefined, <<"E1">>},
         MYENERGI_API_KEY : {Undefined, <<"key">>},
         FOX_ESS_API_KEY : {Undefined, <<"tok">>},
         FOX_ESS_INVERTER_SN : {Undefined, <<>>, <<"inv">>}]

(***************************************************************************)
(* Fixed strings of the source                                             *)
(***************************************************************************)
directorUrl == <<"https://", "director.myenergi.net", "/cgi-jstatus-E">>
uri == <<"/cgi-jstatus-E">>
fixedMyenergiUrl == <<"https://", "s18.myenergi.net", "/cgi-jstatus-E">>
CRLF == <<"\r\n">>

\* foxAPIPath of a build
foxAPIPath(b) ==
    IF FoxKind(b) \in {"errno", "flat"} THEN <<"/c/v0/device/real">>
    ELSE <<"/api/v1/device/realtime">>

\* a signature literal left at the v0 path whatever URL is called
signedPathStale(b) == <<"/c/v0/device/real">>

\* the path in the literal the signature is computed over
signedPath(b) == foxAPIPath(b)

\* foxUrl of a build
foxUrl(b) == <<"https://", "www.foxesscloud.com">> \o foxAPIPath(b)

\* `https://${serverAsn}/cgi-jstatus-E`
myenergiApiEndpoint(asn) == <<"https://">> \o Tpl(asn) \o uri

\* the path component of an absolute URL <<scheme, host, path...>>
PathOf(url) == SubSeq(url, 3, Len(url))

(***************************************************************************)
(* Responses to the dashboard client: res.status(s).json(body)             *)
(***************************************************************************)
Reply(s, body) == [status |-> s, body |-> body]
ErrorBody(msg) == [error |-> msg]

MyenergiNotConfigured ==
    Reply(500, ErrorBody(<<"Myenergi credentials are not configured on the server.">>))
FoxNotConfigured ==
    Reply(500, ErrorBody(<<"Fox ESS credentials are not configured on the server.">>))

(***************************************************************************)
(* Outbound requests                                                       *)
(***************************************************************************)
NoAuth == <<>>
NoHeaders == <<>>
NoBody == <<>>
Request(stage, method, url, auth, headers, body) ==
    [stage |-> stage, method |-> method, url |-> url, auth |-> auth,
     headers |-> headers, body |-> body]

(***************************************************************************)
(* Challenge parsing (index.js 46-57)                                      *)
(***************************************************************************)
RECURSIVE SplitFrom(_, _, _, _)
\* authHeader.split(/, | /) from position i, cur the part being read
SplitFrom(h, i, cur, acc) ==
    IF i > Len(h) THEN Append(acc, cur)
    ELSE IF h[i] = "," /\ i < Len(h) /\ h[i + 1] = " "
         THEN SplitFrom(h, i + 2, <<>>, Append(acc, cur))
    ELSE IF h[i] = " " THEN SplitFrom(h, i + 1, <<>>, Append(acc, cur))
    ELSE SplitFrom(h, i + 1, Append(cur, h[i]), acc)

SplitHeader(h) == SplitFrom(h, 1, <<>>, <<>>)

\* the positions at which /=(.+)/ can match: an "=" with a character after it
EqualsAt(part) == {i \in 1..Len(part) : part[i] = "=" /\ i < Len(part)}

FirstOf(S) == CHOOSE i \in S : \A j \in S : i <= j

\* const [key, value] = part.split(/=(.+)/)
KeyOf(part) ==
    IF EqualsAt(part) = {} THEN part ELSE SubSeq(part, 1, FirstOf(EqualsAt(part)) - 1)
ValueOf(part) ==
    IF EqualsAt(part) = {} THEN Undefined
    ELSE SubSeq(part, FirstOf(EqualsAt(part)) + 1, Len(part))

IsQuote(a) == a = "\""
NotQuote(a) == ~IsQuote(a)
\* value.replace(/"/g, '')
StripQuotes(v) == SelectSeq(v, NotQuote)

\* value.replace throws a TypeError for a part with a key and no value
ParseThrows(h) ==
    \E i \in 1..Len(SplitHeader(h)) :
        LET part == SplitHeader(h)[i]
        IN  KeyOf(part) # <<>> /\ ValueOf(part) = Undefined

\* acc[name] after the reduce: the last part with that key wins
ParamOf(h, name) ==
    LET parts == SplitHeader(h)
        hits == {i \in 1..Len(parts) : KeyOf(parts[i]) = <<name>>}
        last == CHOOSE i \in hits : \A j \in hits : j <= i
    IN  IF hits = {} THEN Undefined ELSE StripQuotes(ValueOf(parts[last]))

\* const { realm, qop, nonce, opaque } = params
ParseChallenge(h) ==
    [realm |-> ParamOf(h, "realm"), qop |-> ParamOf(h, "qop"),
     nonce |-> ParamOf(h, "nonce"), opaque |-> ParamOf(h, "opaque")]

(***************************************************************************)
(* Digest response (index.js 59-67)                                        *)
(***************************************************************************)
method == <<"GET">>
nc == <<"00000001">>
Colon == <<":">>

ha1(username, realm, password) ==
    MD5(username \o Colon \o Tpl(realm) \o Colon \o password)
ha2 == MD5(method \o Colon \o uri)
\* the response of a digest without quality of protection (RFC 2069)
responseHashNoQop(username, password, c, cnonce) ==
    MD5(ha1(username, c.realm, password) \o Colon \o Tpl(c.nonce) \o Colon \o ha2)

responseHash(username, password, c, cnonce) ==
    MD5(ha1(username, c.realm, password) \o Colon \o Tpl(c.nonce) \o Colon \o nc
          \o Colon \o cnonce \o Colon \o Tpl(c.qop) \o Colon \o ha2)

\* a header whose cnonce is not the one the response was computed from
authDetailsOtherCnonce(username, password, c, cnonce) ==
    <<"Digest username=\"">> \o username \o <<"\", realm=\"">> \o Tpl(c.realm)
      \o <<"\", nonce=\"">> \o Tpl(c.nonce) \o <<"\", uri=\"">> \o uri
      \o <<"\", qop=">> \o Tpl(c.qop) \o <<", nc=">> \o nc
      \o <<", cnonce=\"">> \o (IF cnonce = <<"c1">> THEN <<"c2">> ELSE <<"c1">>)
      \o <<"\", response=\"">> \o responseHash(username, password, c, cnonce)
      \o <<"\", opaque=\"">> \o Tpl(c.opaque) \o <<"\"">>

authDetails(username, password, c, cnonce) ==
    <<"Digest username=\"">> \o username \o <<"\", realm=\"">> \o Tpl(c.realm)
      \o <<"\", nonce=\"">> \o Tpl(c.nonce) \o <<"\", uri=\"">> \o uri
      \o <<"\", qop=">> \o Tpl(c.qop) \o <<", nc=">> \o nc
      \o <<", cnonce=\"">> \o cnonce
      \o <<"\", response=\"">> \o responseHash(username, password, c, cnonce)
      \o <<"\", opaque=\"">> \o Tpl(c.opaque) \o <<"\"">>

\* crypto.randomBytes(8).toString('hex')
Cnonces == {<<"c1">>, <<"c2">>}

(***************************************************************************)
(* What the upstream servers may answer                                    *)
(***************************************************************************)
Statuses == {200, 401, 403, 500}
Is2xx(s) == s >= 200 /\ s < 300

Transport == [kind |-> "transport"]

AsnValues == {Undefined, <<>>, <<"s18.myenergi.net">>, <<"s7.myenergi.net">>}
DirectorOutcomes ==
    {Transport} \cup [kind : {"response"}, status : Statuses, asn : AsnValues]

Pair(k, v) == <<k, "=", "\"", v, "\"">>
Sep == <<",", " ">>
BareChallenge ==
    Pair("realm", "test@host") \o Sep \o Pair("nonce", "abc123") \o Sep
      \o Pair("qop", "auth") \o Sep \o Pair("opaque", "o1")
DigestChallenge == <<"Digest", " ">> \o BareChallenge
NoNonceChallenge == Pair("realm", "test@host") \o Sep \o Pair("qop", "auth")
NoOpaqueChallenge ==
    Pair("realm", "test@host") \o Sep \o Pair("nonce", "def456") \o Sep
      \o Pair("qop", "auth")
Challenges ==
    {Undefined, DigestChallenge, BareChallenge, NoNonceChallenge, NoOpaqueChallenge}
ProbeOutcomes ==
    {Transport} \cup [kind : {"response"}, status : Statuses, www : Challenges]

Device(div, stat) == [div |-> div, stat |-> stat]
EddiBody(devs) == [hasEddi |-> TRUE, eddi |-> devs]
NoEddiBody == [hasEddi |-> FALSE, eddi |-> <<>>]
MyenergiBodies ==
    {NoEddiBody, EddiBody(<<>>),
     EddiBody(<<Device(Num(1230), Num(3))>>),
     EddiBody(<<Device(Num(999), Num(1)), Device(Num(0), Num(5))>>),
     EddiBody(<<Device(Absent, Num(1))>>)}
FinalOutcomes ==
    {Transport} \cup [kind : {"response"}, status : Statuses, data : MyenergiBodies]

FoxRec(field, name, value) == [field |-> field, name |-> name, value |-> value]
FoxResult(hasDatas, datas, pv, soc, grid) ==
    [hasDatas |-> hasDatas, datas |-> datas, pvPower |-> pv, soc |-> soc, gridPower |-> grid]
NoResult == FoxResult(FALSE, <<>>, Absent, Absent, Absent)
FoxBody(errno, msg, hasResult, result) ==
    [errno |-> errno, msg |-> msg, hasResult |-> hasResult, result |-> result]
Records(field, pv, soc, grid) ==
    (IF pv = Absent THEN <<>> ELSE <<FoxRec(field, <<"pvPower">>, pv)>>)
      \o (IF soc = Absent THEN <<>> ELSE <<FoxRec(field, <<"SoC">>, soc)>>)
      \o (IF grid = Absent THEN <<>> ELSE <<FoxRec(field, <<"gridPower">>, grid)>>)
RecordsBody(errno, field, pv, soc, grid) ==
    FoxBody(errno, Undefined, TRUE,
            FoxResult(TRUE, Records(field, pv, soc, grid), Absent, Absent, Absent))
FlatBody(pv, soc, grid) ==
    FoxBody(Num(0), Undefined, TRUE, FoxResult(FALSE, <<>>, pv, soc, grid))
FoxBodies ==
    {FoxBody(Num(0), Undefined, FALSE, NoResult),
     FoxBody(Num(41808), <<"Token invalid">>, FALSE, NoResult),
     FoxBody(Num(0), Undefined, TRUE, NoResult),
     RecordsBody(Num(0), "variable", Num(3), Num(55), Num(1)),
     RecordsBody(Absent, "variable", Num(3), Absent, Num(1)),
     RecordsBody(Num(41808), "variable", Num(3), Num(55), Num(1)),
     RecordsBody(Num(0), "key", Num(1234), Num(55), Num(0 - 300)),
     RecordsBody(Num(0), "key", Absent, Absent, Num(999)),
     FlatBody(Num(1234), Num(55), Num(300)),
     FlatBody(Num(1234), Absent, Num(300)),
     FlatBody(Absent, Num(55), Absent)}
\* the bodies of an error answer to the signed request q: none, an error
\* number, or a message that quotes the token header it was sent
ErrPayloads(q) ==
    {Undefined, <<"{\"errno\":40256}">>,
     <<"{\"msg\":\"illegal token ">> \o q.headers.token \o <<"\"}">>}
FoxOutcomes(q) ==
    {Transport}
      \cup [kind : {"response"}, status : {200}, data : FoxBodies]
      \cup [kind : {"response"}, status : {401, 500}, data : ErrPayloads(q)]

(***************************************************************************)
(* Error messages                                                          *)
(***************************************************************************)
\* error.message of the error axios rejects with
AxiosMessage(o) ==
    IF o.kind = "transport" THEN <<"connect ECONNREFUSED">>
    ELSE <<"Request failed with status code ">> \o Digits(o.status)

\* `${error.response?.status}`
StatusText(o) == IF o.kind = "transport" THEN <<"undefined">> ELSE Digits(o.status)

TypeErrorMessage == <<"Cannot read properties of undefined">>

\* outcome of a stage of performMyenergiRequest: thrown message or value
Thrown(msg) == [thrown |-> TRUE, msg |-> msg]
Value(v) == [thrown |-> FALSE, value |-> v]

\* the outer catch of performMyenergiRequest
Wrap(k, msg) ==
    IF k = "director" THEN <<"Myenergi request failed: ">> \o msg
    ELSE <<"Myenergi digest auth failed: ">> \o msg

\* the catch of app.get('/api/myenergi')
MyenergiCatch(b, msg) ==
    CASE b \in {"index.js#1", "part_000#2"} -> Reply(500, ErrorBody(msg))
      [] b = "part_002#1" ->
            Reply(500, ErrorBody(<<"Myenergi request failed: ">> \o msg))
      [] b = "part_001#2" ->
            Reply(500, ErrorBody(<<"Failed to fetch from Myenergi API. Response status: ">>
                                   \o <<"undefined">>))
      [] OTHER -> Reply(500, ErrorBody(<<"Failed to fetch from Myenergi API.">>))

\* the catch of app.get('/api/foxess')
FoxCatch(b, o) ==
    CASE b \in {"index.js#2", "index.js#3", "part_001#1"} ->
            Reply(500, ErrorBody(<<"Fox ESS API request failed: ">>
                \o (IF o.kind = "response" /\ ~Falsy(o.data) THEN o.data
                    ELSE AxiosMessage(o))))
      [] b = "part_001#2" ->
            Reply(500, ErrorBody(<<"Failed to fetch from Fox ESS API. Status: ">>
                                   \o StatusText(o)))
      [] OTHER -> Reply(500, ErrorBody(<<"Failed to fetch from Fox ESS API.">>))

(***************************************************************************)
(* Response normalisation                                                  *)
(***************************************************************************)
EddiNotFound == Reply(404, ErrorBody(<<"Eddi data not found in API response.">>))

\* (eddiData.div / 1000).toFixed(2)
DiversionKw(div) == IF div = Absent THEN NaNText ELSE MilliToFixed2(div.v)

\* a normaliser that reads the first eddi record without the emptiness check
NormalizeMyenergiUnchecked(data) ==
    IF ~data.hasEddi \/ data.eddi = <<>> THEN Thrown(TypeErrorMessage)
    ELSE Value(Reply(200, [diversion_kw |-> Text(DiversionKw(data.eddi[1].div)),
                           status |-> data.eddi[1].stat]))

\* the body of the try block of app.get('/api/myenergi') after the fetch:
\* response.data.eddi[0], the 404 and the snapshot
NormalizeMyenergi(data) ==
    IF ~data.hasEddi THEN Thrown(TypeErrorMessage)
    ELSE IF data.eddi = <<>> THEN Value(EddiNotFound)
    ELSE Value(Reply(200, [diversion_kw |-> Text(DiversionKw(data.eddi[1].div)),
                           status |-> data.eddi[1].stat]))

\* datas.find(d => d[field] === name)
Find(datas, field, name) ==
    LET hits == {i \in 1..Len(datas) : datas[i].field = field /\ datas[i].name = name}
    IN  IF hits = {} THEN Absent ELSE datas[FirstOf(hits)].value

\* x || 0 for a number or undefined
OrZero(x) == IF x = Absent \/ x.v = 0 THEN 0 ELSE x.v

FoxNotFound(b) ==
    IF FoxKind(b) = "records"
    THEN Reply(404, ErrorBody(<<"Fox ESS data not found in API response (v1 endpoint).">>))
    ELSE Reply(404, ErrorBody(<<"Fox ESS data not found in API response.">>))

\* response.data.msg || 'Unknown error'
FoxErrno(data) ==
    Reply(400, ErrorBody(<<"Fox ESS API Error: ">>
        \o (IF Falsy(data.msg) THEN <<"Unknown error">> ELSE data.msg)))

\* (x / 1000).toFixed(2) for a number or undefined
KwText(x) == Text(IF x = Absent THEN NaNText ELSE MilliToFixed2(x.v))

FoxSnapshot(solar, battery, grid) ==
    Reply(200, [solar_kw |-> solar, battery_percent |-> battery, grid_kw |-> grid])

\* the body of the try block of app.get('/api/foxess') after the POST
NormalizeFox(b, data) ==
    LET datas == IF data.result.hasDatas THEN data.result.datas ELSE <<>>
        k == FoxKind(b)
    IN  IF k = "errno" /\ data.errno # Num(0) THEN FoxErrno(data)
        ELSE IF ~data.hasResult THEN FoxNotFound(b)
        ELSE CASE k = "records" ->
                    FoxSnapshot(Text(IntToFixed2(OrZero(Find(datas, "variable", <<"pvPower">>)))),
                                Num(OrZero(Find(datas, "variable", <<"SoC">>))),
                                Text(IntToFixed2(OrZero(Find(datas, "variable", <<"gridPower">>)))))
               [] k = "records_raw" ->
                    LET pv == Find(datas, "variable", <<"pvPower">>)
                        soc == Find(datas, "variable", <<"SoC">>)
                        grid == Find(datas, "variable", <<"gridPower">>)
                    IN  FoxSnapshot(IF pv = Absent THEN Num(0) ELSE pv,
                                    IF soc = Absent THEN Num(0) ELSE soc,
                                    IF grid = Absent THEN Num(0) ELSE grid)
               [] k = "errno" ->
                    LET pv == Find(datas, "key", <<"pvPower">>)
                        soc == Find(datas, "key", <<"SoC">>)
                        grid == Find(datas, "key", <<"gridPower">>)
                    IN  FoxSnapshot(IF pv = Absent THEN Num(0) ELSE KwText(pv),
                                    IF soc = Absent THEN Num(0) ELSE soc,
                                    IF grid = Absent THEN Num(0) ELSE KwText(grid))
               [] OTHER ->
                    FoxSnapshot(KwText(data.result.pvPower), data.result.soc,
                                KwText(data.result.gridPower))

(***************************************************************************)
(* The stages of performMyenergiRequest                                    *)
(***************************************************************************)
\* whether the director call yields a response whose headers are read
DirectorResolves(k, o) ==
    IF k = "director_auth" THEN o.kind = "response" /\ Is2xx(o.status)
    ELSE o.kind = "response"

\* whether the x_myenergi-asn value read from the response is refused
AsnRefused(k, asn) == IF k = "director_auth" THEN FALSE ELSE Falsy(asn)

\* the error thrown when discovery fails
DirectorFailure(k, o) ==
    CASE k = "director_auth" -> <<"Director login failed. Check credentials.">>
      [] k = "director" ->
            Wrap(k, IF o.kind = "transport" THEN AxiosMessage(o)
                    ELSE <<"Director response did not contain 'x_myenergi-asn' header.">>)
      [] OTHER ->
            IF o.kind = "transport" THEN AxiosMessage(o)
            ELSE <<"Failed to get server address (ASN) from Myenergi director.">>

\* a probe that takes the response of every status as the challenge
ChallengeResponseAnyStatus(k, o) ==
    IF o.kind = "response" THEN Value(o) ELSE Thrown(AxiosMessage(o))

\* the unauthenticated request: the challenge response, or what is thrown
ChallengeResponse(k, o) ==
    IF o.kind = "response" /\ o.status = 401 THEN Value(o)
    ELSE IF o.kind = "response" /\ Is2xx(o.status)
         THEN IF k = "director_auth" THEN Thrown(TypeErrorMessage) ELSE Value(o)
    ELSE IF k = "fixed" THEN Thrown(AxiosMessage(o))
    ELSE IF k = "director_auth"
         THEN Thrown(<<"Failed to get auth challenge. Status: ">> \o StatusText(o))
    ELSE Thrown(<<"Failed to get auth challenge. Server returned status: ">>
                  \o StatusText(o))

\* the challenge parameters taken from the probe, or what is thrown
Challenge(k, o) ==
    LET cr == ChallengeResponse(k, o)
        h == cr.value.www
    IN  IF cr.thrown THEN cr
        ELSE IF k = "fixed" /\ h = Undefined THEN Thrown(TypeErrorMessage)
        ELSE IF k # "fixed" /\ Falsy(h)
             THEN Thrown(IF k = "director_auth"
                         THEN <<"WWW-Authenticate header missing in response.">>
                         ELSE <<"WWW-Authenticate header missing in challenge response.">>)
        ELSE IF ParseThrows(h) THEN Thrown(TypeErrorMessage)
        ELSE IF k # "fixed" /\ (Falsy(ParseChallenge(h).realm) \/ Falsy(ParseChallenge(h).nonce))
             THEN Thrown(IF k = "director_auth"
                         THEN <<"Invalid WWW-Authenticate header received.">>
                         ELSE <<"Invalid WWW-Authenticate header received from server.">>)
        ELSE Value(ParseChallenge(h))

\* whether the final response is handed to the normaliser
FinalAccepted(k, o) ==
    IF k = "fixed_fetch" THEN o.kind = "response"
    ELSE o.kind = "response" /\ Is2xx(o.status)

\* the error thrown for a final response that is not accepted
FinalFailure(k, asn, o) ==
    CASE k \in {"director_auth", "director", "fixed"} -> Wrap(k, AxiosMessage(o))
      [] k = "director_fetch" /\ o.kind = "response" ->
            <<"Authentication failed with server ">> \o asn \o <<". Status: ">>
              \o Digits(o.status)
      [] OTHER -> AxiosMessage(o)

(***************************************************************************)
(* State machine: one record of state for each inbound request             *)
(***************************************************************************)
NoLoc == [asn |-> <<>>, endpoint |-> <<>>]

\* a handler that ends on an exception which escapes it: nothing is sent
RespondEscapes(r, reply) ==
    /\ res' = res
    /\ pc' = [pc EXCEPT ![r] = "done"]

\* res.status(..).json(..): the handler is finished
Respond(r, reply) ==
    /\ res' = [res EXCEPT ![r] = Append(@, reply)]
    /\ pc' = [pc EXCEPT ![r] = "done"]

\* an outbound call that is issued a second time before the first settles
SendTwice(r, req, next) ==
    /\ sent' = [sent EXCEPT ![r] = Append(Append(@, req), req)]
    /\ pc' = [pc EXCEPT ![r] = next]

\* an outbound call is issued and awaited
Send(r, req, next) ==
    /\ sent' = [sent EXCEPT ![r] = Append(@, req)]
    /\ pc' = [pc EXCEPT ![r] = next]

\* an awaited call settles with outcome o
Settle(r, o) == got' = [got EXCEPT ![r] = Append(@, o)]

ProbeRequest(url) == Request("probe", method, url, NoAuth, NoHeaders, NoBody)
FetchRequest(url, username, password) ==
    Request("digest-fetch", method, url, <<username, password>>, NoHeaders, NoBody)

\* a request arrives at app.get('/api/myenergi')
ArriveMyenergi(r) ==
    LET username == env.MYENERGI_EDDI_SN
        password == env.MYENERGI_API_KEY
        k == MyenergiKind(build)
    IN  /\ pc[r] = "idle"
        /\ route[r] = "/api/myenergi"
        /\ IF Falsy(username) \/ Falsy(password)
           THEN Respond(r, MyenergiNotConfigured) /\ UNCHANGED <<sent, loc>>
           ELSE /\ res' = res
                /\ CASE k = "director_auth" ->
                          /\ Send(r, Request("discovery", method, directorUrl,
                                             <<username, password>>,
                                             [accept |-> <<"application/json">>], NoBody),
                                  "director")
                          /\ loc' = loc
                     [] k \in {"director", "director_fetch"} ->
                          /\ Send(r, Request("discovery", method, directorUrl, NoAuth,
                                             NoHeaders, NoBody), "director")
                          /\ loc' = loc
                     [] k = "fixed" ->
                          /\ Send(r, ProbeRequest(fixedMyenergiUrl), "probe")
                          /\ loc' = [loc EXCEPT ![r] = [asn |-> <<"s18.myenergi.net">>,
                                                        endpoint |-> fixedMyenergiUrl]]
                     [] OTHER ->
                          /\ Send(r, FetchRequest(fixedMyenergiUrl, username, password),
                                  "fetch")
                          /\ loc' = [loc EXCEPT ![r] = [asn |-> <<"s18.myenergi.net">>,
                                                        endpoint |-> fixedMyenergiUrl]]
        /\ UNCHANGED <<build, env, route, got, raw, kw>>

\* the director call settles
DirectorSettles(r) ==
    LET k == MyenergiKind(build) IN
    /\ pc[r] = "director"
    /\ \E o \in DirectorOutcomes :
        /\ Settle(r, o)
        /\ IF ~DirectorResolves(k, o) \/ AsnRefused(k, o.asn)
           THEN /\ Respond(r, MyenergiCatch(build, DirectorFailure(k, o)))
                /\ UNCHANGED <<sent, loc>>
           ELSE /\ loc' = [loc EXCEPT ![r] = [asn |-> o.asn,
                                              endpoint |-> myenergiApiEndpoint(o.asn)]]
                /\ res' = res
                /\ IF k = "director_fetch"
                   THEN Send(r, FetchRequest(myenergiApiEndpoint(o.asn),
                                             env.MYENERGI_EDDI_SN, env.MYENERGI_API_KEY),
                             "fetch")
                   ELSE Send(r, ProbeRequest(myenergiApiEndpoint(o.asn)), "probe")
    /\ UNCHANGED <<build, env, route, raw, kw>>

\* an endpoint kept in one place for all requests and written by the first
EndpointShared(r) == loc["r1"].endpoint

\* const myenergiApiEndpoint of the invocation
Endpoint(r) == loc[r].endpoint

\* the unauthenticated request settles
ProbeSettles(r) ==
    LET k == MyenergiKind(build) IN
    /\ pc[r] = "probe"
    /\ \E o \in ProbeOutcomes, cnonce \in Cnonces :
        /\ Settle(r, o)
        /\ IF Challenge(k, o).thrown
           THEN /\ Respond(r, MyenergiCatch(build, Wrap(k, Challenge(k, o).msg)))
                /\ sent' = sent
           ELSE /\ Send(r, Request("authenticated", method, Endpoint(r), NoAuth,
                                   [Authorization |->
                                       authDetails(env.MYENERGI_EDDI_SN,
                                                   env.MYENERGI_API_KEY,
                                                   Challenge(k, o).value, cnonce)],
                                   NoBody), "final")
                /\ res' = res
    /\ UNCHANGED <<build, env, route, loc, raw, kw>>

\* the authenticated request (manual digest or digest-fetch) settles
FinalSettles(r) ==
    LET k == MyenergiKind(build) IN
    /\ pc[r] \in {"final", "fetch"}
    /\ \E o \in FinalOutcomes :
        /\ Settle(r, o)
        /\ IF ~FinalAccepted(k, o)
           THEN Respond(r, MyenergiCatch(build, FinalFailure(k, loc[r].asn, o)))
           ELSE IF NormalizeMyenergi(o.data).thrown
           THEN Respond(r, MyenergiCatch(build, NormalizeMyenergi(o.data).msg))
           ELSE Respond(r, NormalizeMyenergi(o.data).value)
    /\ UNCHANGED <<build, env, route, loc, sent, raw, kw>>

\* the signed request of app.get('/api/foxess')
SignatureString(path, token, timestamp) ==
    path \o CRLF \o token \o CRLF \o NumberToString(timestamp)
Signature(path, token, timestamp) == MD5(SignatureString(path, token, timestamp))
SignedRequest(b, token, inverterSn, timestamp) ==
    Request("signed", <<"POST">>, foxUrl(b), NoAuth,
            [token |-> token, timestamp |-> NumberToString(timestamp),
             signature |-> Signature(signedPath(b), token, timestamp),
             lang |-> <<"en">>],
            [sn |-> inverterSn])

\* a request arrives at app.get('/api/foxess')
ArriveFoxess(r) ==
    LET token == env.FOX_ESS_API_KEY
        inverterSn == env.FOX_ESS_INVERTER_SN
    IN  /\ pc[r] = "idle"
        /\ route[r] = "/api/foxess"
        /\ IF Falsy(token) \/ Falsy(inverterSn)
           THEN Respond(r, FoxNotConfigured) /\ sent' = sent
           ELSE /\ \E timestamp \in 0..MaxTime :
                     Send(r, SignedRequest(build, token, inverterSn, timestamp), "fox")
                /\ res' = res
        /\ UNCHANGED <<build, env, route, loc, got, raw, kw>>

\* a handler that sends the signed request once more when it fails
FoxSettlesRetry(r) ==
    /\ pc[r] = "fox"
    /\ \E o \in FoxOutcomes(sent[r][Len(sent[r])]) :
        /\ Settle(r, o)
        /\ IF o.kind = "response" /\ Is2xx(o.status)
           THEN Respond(r, NormalizeFox(build, o.data)) /\ sent' = sent
           ELSE IF Len(sent[r]) < 2
           THEN Send(r, sent[r][1], "fox") /\ res' = res
           ELSE Respond(r, FoxCatch(build, o)) /\ sent' = sent
    /\ UNCHANGED <<build, env, route, loc, raw, kw>>

\* the signed request settles
FoxSettles(r) ==
    /\ pc[r] = "fox"
    /\ \E o \in FoxOutcomes(sent[r][Len(sent[r])]) :
        /\ Settle(r, o)
        /\ IF o.kind = "response" /\ Is2xx(o.status)
           THEN Respond(r, NormalizeFox(build, o.data))
           ELSE Respond(r, FoxCatch(build, o))
    /\ UNCHANGED <<build, env, route, loc, sent, raw, kw>>

\* the unit conversion of the normaliser applied to a raw diversion value
Convert ==
    /\ kw = <<>>
    /\ kw' = DiversionKw(Num(raw))
    /\ UNCHANGED <<build, env, route, pc, loc, sent, got, res, raw>>

Idle == [r \in Reqs |-> <<>>]

\* one inbound request against any build and any configuration
Init ==
    /\ build \in Builds
    /\ env \in Envs
    /\ route \in [Reqs -> Routes(build)]
    /\ route["r2"] = "/api/foxess"
    /\ pc = [r \in Reqs |-> IF r = "r1" THEN "idle" ELSE "off"]
    /\ loc = [r \in Reqs |-> NoLoc]
    /\ sent = Idle /\ got = Idle /\ res = Idle
    /\ raw = 0 /\ kw = DiversionKw(Num(0))

Next ==
    \E r \in Reqs :
        \/ ArriveMyenergi(r)
        \/ DirectorSettles(r)
        \/ ProbeSettles(r)
        \/ FinalSettles(r)
        \/ ArriveFoxess(r)
        \/ FoxSettles(r)

Spec == Init /\ [][Next]_vars

\* one inbound request whose handler is run and whose outbound calls all
\* settle in the end
SpecLive == Init /\ [][Next]_vars /\ WF_vars(Next)

\* the unit conversion alone, over every raw value in range
InitKw ==
    /\ build = "index.js#1"
    /\ env \in {e \in Envs : Falsy(e.MYENERGI_EDDI_SN) /\ Falsy(e.FOX_ESS_API_KEY)
                              /\ Falsy(e.MYENERGI_API_KEY) /\ e.FOX_ESS_INVERTER_SN = Undefined}
    /\ route = [r \in Reqs |-> "/api/myenergi"]
    /\ pc = [r \in Reqs |-> "off"]
    /\ loc = [r \in Reqs |-> NoLoc]
    /\ sent = Idle /\ got = Idle /\ res = Idle
    /\ raw \in (0 - MaxRaw)..MaxRaw
    /\ kw = <<>>

NextKw == Convert

SpecKw == InitKw /\ [][NextKw]_vars

\* every value of the configuration is set
Configured == [MYENERGI_EDDI_SN |-> <<"E1">>, MYENERGI_API_KEY |-> <<"key">>,
               FOX_ESS_API_KEY |-> <<"tok">>, FOX_ESS_INVERTER_SN |-> <<"inv">>]

\* the builds with a hand-written negotiator that two requests are run against
BuildsTwo == {"index.js#1", "part_000#1"}

\* two inbound requests, in any interleaving of their awaits, against a
\* configured server
InitTwo ==
    /\ build \in BuildsTwo
    /\ env = Configured
    /\ route \in [Reqs -> Routes(build)]
    /\ pc = [r \in Reqs |-> "idle"]
    /\ loc = [r \in Reqs |-> NoLoc]
    /\ sent = Idle /\ got = Idle /\ res = Idle
    /\ raw = 0 /\ kw = DiversionKw(Num(0))

SpecTwo == InitTwo /\ [][Next]_vars

(***************************************************************************)
(* Properties                                                              *)
(***************************************************************************)
Last(q) == q[Len(q)]

\* request r has finished with exactly the reply rep
EndedWith(r, rep) == pc[r] = "done" /\ res[r] = <<rep>>

\* the outcome of the discovery call of r, once settled
Discovered(r) ==
    /\ Len(got[r]) >= 1
    /\ sent[r][1].stage = "discovery"

\* the outcome of the last call r issued has settled, and it was a call of
\* the given stages
Settled(r, stages) ==
    /\ Len(sent[r]) >= 1
    /\ Len(got[r]) = Len(sent[r])
    /\ Last(sent[r]).stage \in stages

DataStages == {"authenticated", "digest-fetch"}

\* C1: whatever status the director answers with, a non-empty x_myenergi-asn
\* header H makes H the server the next request goes to.
C1_DiscoveryIgnoresStatus ==
    \A r \in Reqs :
        (Discovered(r) /\ got[r][1].kind = "response" /\ ~Falsy(got[r][1].asn))
            => /\ Len(sent[r]) >= 2
               /\ sent[r][2].url = <<"https://">> \o got[r][1].asn \o <<"/cgi-jstatus-E">>

\* C2: a director answer without the header, with an empty header, or a
\* transport failure ends the request in an error reply, and no probe and no
\* authenticated request follows.
C2_DiscoveryFailureStops ==
    \A r \in Reqs :
        (Discovered(r) /\ (got[r][1].kind = "transport" \/ Falsy(got[r][1].asn)))
            => /\ Len(sent[r]) = 1
               /\ pc[r] = "done"
               /\ Len(res[r]) = 1
               /\ res[r][1].status >= 400
               /\ DOMAIN res[r][1].body = {"error"}

\* the upstream answers of the end-to-end scenario, call by call
Scenario ==
    <<[kind |-> "response", status |-> 200, asn |-> <<"s18.myenergi.net">>],
      [kind |-> "response", status |-> 401, www |-> DigestChallenge],
      [kind |-> "response", status |-> 200,
       data |-> EddiBody(<<Device(Num(1230), Num(3))>>)]>>

\* every call r has issued so far was answered as the scenario prescribes
FollowsScenario(r) ==
    /\ Len(got[r]) = Len(sent[r])
    /\ Len(got[r]) <= Len(Scenario)
    /\ \A i \in 1..Len(got[r]) : got[r][i] = Scenario[i]

\* C3: under the end-to-end scenario (header s18.myenergi.net, 401 with a
\* valid Digest challenge, final body {eddi:[{div:1230, stat:3}]}) the request
\* ends with 200 {diversion_kw: "1.23", status: 3}.
C3_EndToEnd ==
    \A r \in Reqs :
        (/\ route[r] = "/api/myenergi"
         /\ pc[r] = "done"
         /\ Len(sent[r]) >= 1
         /\ sent[r][1].stage = "discovery"
         /\ FollowsScenario(r))
            => res[r] = <<Reply(200, [diversion_kw |-> Text(<<"1", ".", "2", "3">>),
                                      status |-> Num(3)])>>

\* C4: a non-2xx answer to the final, authenticated request ends the request
\* in an error reply: no snapshot and no further outbound call.
C4_AuthRejected ==
    \A r \in Reqs :
        (/\ Settled(r, DataStages)
         /\ Last(got[r]).kind = "response"
         /\ ~Is2xx(Last(got[r]).status))
            => /\ pc[r] = "done"
               /\ Len(res[r]) = 1
               /\ res[r][1].status >= 400
               /\ DOMAIN res[r][1].body = {"error"}

\* the last call of r was the data call and it was answered 2xx with data d
Succeeded(r, stages) ==
    /\ Settled(r, stages)
    /\ Last(got[r]).kind = "response"
    /\ Is2xx(Last(got[r]).status)

\* C5: a successful vendor-1 body with an empty eddi array yields 404 with a
\* JSON error body, never a snapshot and never a 500.
C5_EmptyEddiNotFound ==
    \A r \in Reqs :
        (/\ Succeeded(r, DataStages)
         /\ Last(got[r]).data.hasEddi
         /\ Last(got[r]).data.eddi = <<>>)
            => /\ pc[r] = "done"
               /\ Len(res[r]) = 1
               /\ res[r][1].status = 404
               /\ DOMAIN res[r][1].body = {"error"}

\* a request of every vendor-1 build has received an empty eddi array
C5_Witness ==
    \E r \in Reqs :
        /\ Succeeded(r, DataStages)
        /\ Last(got[r]).data = EddiBody(<<>>)
        /\ build = "index.js#1"
        /\ EndedWith(r, EddiNotFound)

\* C6: a successful vendor-1 body without the eddi key yields 404, as an
\* empty array does.
C6_AbsentEddiNotFound ==
    \A r \in Reqs :
        (/\ Succeeded(r, DataStages)
         /\ ~Last(got[r]).data.hasEddi)
            => /\ pc[r] = "done"
               /\ Len(res[r]) = 1
               /\ res[r][1].status = 404

\* a vendor-2 body carries the named quantity, as a flat field or as a record
HasRecord(data, flat, name) ==
    /\ data.hasResult
    /\ \/ data.result[flat] # Absent
       \/ /\ data.result.hasDatas
          /\ \E i \in 1..Len(data.result.datas) : data.result.datas[i].name = name

IsZero(x) == x = Num(0) \/ x = Text(<<"0", ".", "0", "0">>)

\* C7: for a successful vendor-2 body each absent record (solar power, state
\* of charge, grid power) becomes zero in a 200 snapshot; a body without the
\* state-of-charge record gives battery_percent = 0.
C7_AbsentRecordsAreZero ==
    \A r \in Reqs :
        (/\ Succeeded(r, {"signed"})
         /\ Last(got[r]).data.hasResult
         /\ Last(got[r]).data.errno = Num(0))
            => LET d == Last(got[r]).data
                   rep == res[r][1]
               IN  /\ pc[r] = "done"
                   /\ Len(res[r]) = 1
                   /\ rep.status = 200
                   /\ ~HasRecord(d, "pvPower", <<"pvPower">>) => IsZero(rep.body.solar_kw)
                   /\ ~HasRecord(d, "soc", <<"SoC">>) => rep.body.battery_percent = Num(0)
                   /\ ~HasRecord(d, "gridPower", <<"gridPower">>) => IsZero(rep.body.grid_kw)

DigitValue(c) == CHOOSE d \in 0..9 : Digit(d) = c
IsDigit(c) == \E d \in 0..9 : Digit(d) = c

RECURSIVE DecimalValue(_)
\* the number a sequence of decimal digits denotes
DecimalValue(q) ==
    IF q = <<>> THEN 0
    ELSE 10 * DecimalValue(SubSeq(q, 1, Len(q) - 1)) + DigitValue(Last(q))

\* q is digits, a point and two digits
IsTwoDecimal(q) ==
    /\ Len(q) >= 4
    /\ q[Len(q) - 2] = "."
    /\ \A i \in (1..Len(q)) \ {Len(q) - 2} : IsDigit(q[i])

\* the hundredths a two-decimal string denotes
HundredthsOf(q) ==
    100 * DecimalValue(SubSeq(q, 1, Len(q) - 3)) + DecimalValue(SubSeq(q, Len(q) - 1, Len(q)))

Unsigned(q) == IF q # <<>> /\ q[1] = "-" THEN Tail(q) ELSE q

\* C8: diversion_kw is the raw value in watts divided by 1000, rounded to the
\* nearest hundredth and written with two decimals; 1234 gives "1.23" and
\* 999 gives "1.00".
C8_DiversionKw ==
    kw # <<>> =>
        /\ IsTwoDecimal(Unsigned(kw))
        /\ (kw[1] = "-") => raw < 0
        /\ raw < 0 => kw[1] = "-"
        /\ 10 * HundredthsOf(Unsigned(kw)) - Abs(raw) \in (0 - 5)..5
        /\ raw = 1234 => kw = <<"1", ".", "2", "3">>
        /\ raw = 999 => kw = <<"1", ".", "0", "0">>

\* the boundary value 999 has been converted
C8_Witness == raw = 999 /\ kw = <<"1", ".", "0", "0">>

SomePaths == {<<"/api/v1/device/realtime">>, <<"/c/v0/device/real">>}
SomeTokens == {<<"tok">>, <<"tok2">>, <<"tok", "\r\n", "1">>}
SomeTimes == 0..(MaxTime + 10)
SomeTriples == SomePaths \X SomeTokens \X SomeTimes

\* C9: every signed request carries the digest of path CRLF secret CRLF
\* timestamp, for the path of the URL requested and the token and timestamp
\* sent in its headers, with body {sn: deviceId}; the signature is a function
\* of the three inputs: no other path, token or timestamp gives the same one.
C9_SignedRequest ==
    /\ \A r \in Reqs : \A i \in 1..Len(sent[r]) :
           sent[r][i].stage = "signed" =>
               LET q == sent[r][i] IN
               /\ q.headers.signature =
                     MD5(PathOf(q.url) \o <<"\r\n">> \o q.headers.token \o <<"\r\n">>
                           \o q.headers.timestamp)
               /\ q.headers.token = env.FOX_ESS_API_KEY
               /\ \E t \in 0..MaxTime : q.headers.timestamp = NumberToString(t)
               /\ q.body = [sn |-> env.FOX_ESS_INVERTER_SN]
               /\ q.method = <<"POST">>
               /\ \A a \in SomeTriples :
                      (Signature(a[1], a[2], a[3]) = q.headers.signature)
                          <=> /\ a[1] = PathOf(q.url)
                              /\ a[2] = q.headers.token
                              /\ NumberToString(a[3]) = q.headers.timestamp

\* a signed request has been sent to the v1 endpoint at the latest clock value
C9_Witness ==
    \E r \in Reqs :
        /\ pc[r] = "fox"
        /\ Len(sent[r]) = 1
        /\ sent[r][1].stage = "signed"
        /\ PathOf(sent[r][1].url) = <<"/api/v1/device/realtime">>
        /\ sent[r][1].headers.timestamp = NumberToString(MaxTime)

\* the configuration a route needs is missing
ConfigMissing(r) ==
    IF route[r] = "/api/myenergi"
    THEN Falsy(env.MYENERGI_EDDI_SN) \/ Falsy(env.MYENERGI_API_KEY)
    ELSE Falsy(env.FOX_ESS_API_KEY) \/ Falsy(env.FOX_ESS_INVERTER_SN)

\* C10: a request that does not end in a 200 snapshot ends with 500 (missing
\* configuration, or any other failure) or 404 (data not found), with a JSON
\* body {error: string}; no other status is sent.
C10_ErrorStatusMapping ==
    \A r \in Reqs : \A i \in 1..Len(res[r]) :
        /\ res[r][i].status \in {200, 404, 500}
        /\ res[r][i].status # 200 => DOMAIN res[r][i].body = {"error"}
        /\ ConfigMissing(r) => res[r][i].status = 500
        /\ res[r][i].status = 404 => Len(got[r]) >= 1 /\ Last(got[r]).kind = "response"

\* the string v occurs in the string s
Contains(s, v) ==
    \E i \in 1..(Len(s) - Len(v) + 1) : SubSeq(s, i, i + Len(v) - 1) = v

\* the values request r must keep to itself: identity, secret and token of
\* the configuration, the signature it sent and the digest response it sent
Sensitive(r) ==
    {v \in {env.MYENERGI_EDDI_SN, env.MYENERGI_API_KEY, env.FOX_ESS_API_KEY} : ~Falsy(v)}
      \cup {sent[r][i].headers.signature :
                i \in {j \in 1..Len(sent[r]) : sent[r][j].stage = "signed"}}
      \cup {responseHash(env.MYENERGI_EDDI_SN, env.MYENERGI_API_KEY,
                          ParseChallenge(got[r][i - 1].www), cnonce) :
                i \in {j \in 2..Len(sent[r]) : sent[r][j].stage = "authenticated"},
                cnonce \in Cnonces}

\* C11: the error body of a failed request never contains the identity, the
\* secret or token, the signature or the digest response, even when the
\* upstream error payload or the transport error message quotes one of them.
C11_NoSecretInErrorBody ==
    \A r \in Reqs : \A i \in 1..Len(res[r]) :
        "error" \in DOMAIN res[r][i].body
            => \A v \in Sensitive(r) : ~Contains(res[r][i].body.error, v)

\* the calls of r were issued one after the other: at most one is in flight
Sequential(r) == Len(got[r]) <= Len(sent[r]) /\ Len(sent[r]) <= Len(got[r]) + 1

\* C12 as stated: one inbound request issues at most two outbound calls in
\* total, the second only after the first has settled.
C12_AtMostTwoCalls ==
    \A r \in Reqs : Len(sent[r]) <= 2 /\ Sequential(r)

\* C12, amended: one inbound request issues at most three outbound calls
\* (discovery, probe, authenticated request; one signed call for
\* /api/foxess), each only after the one before it has settled, and in that
\* order of stages.
C12_AtMostThreeCalls ==
    \A r \in Reqs :
        /\ Len(sent[r]) <= 3
        /\ Sequential(r)
        /\ \A i \in 1..Len(sent[r]) :
               /\ sent[r][i].stage = "discovery" => i = 1
               /\ sent[r][i].stage = "probe" =>
                      i <= 2 /\ (i = 2 => sent[r][1].stage = "discovery")
               /\ sent[r][i].stage = "authenticated" =>
                      i >= 2 /\ sent[r][i - 1].stage = "probe"
               /\ sent[r][i].stage = "digest-fetch" =>
                      i <= 2 /\ (i = 2 => sent[r][1].stage = "discovery")
               /\ sent[r][i].stage = "signed" => i = 1
        /\ route[r] = "/api/foxess" => Len(sent[r]) <= 1

\* a request has issued discovery, probe and authenticated request and ended
C12_Witness ==
    \E r \in Reqs :
        /\ pc[r] = "done"
        /\ Len(sent[r]) = 3
        /\ Len(got[r]) = 3
        /\ sent[r][3].stage = "authenticated"

\* C13: a 200 snapshot is replied only when the data call of the same
\* request (authenticated request, digest-fetch call or signed call) was
\* answered with a 2xx status.
C13_SnapshotOnlyFrom2xx ==
    \A r \in Reqs : \A i \in 1..Len(res[r]) :
        res[r][i].status = 200
            => Succeeded(r, DataStages \cup {"signed"})

\* the reply request r gives when its last call, a probe or an authenticated
\* request, fails with outcome o
FailureReply(r, o) ==
    LET k == MyenergiKind(build) IN
    IF Last(sent[r]).stage = "probe"
    THEN MyenergiCatch(build, Wrap(k, Challenge(k, o).msg))
    ELSE MyenergiCatch(build, FinalFailure(k, loc[r].asn, o))

\* the answers with a rejecting status to the last call of r: an error
\* status other than 401 for the probe, any error status for the
\* authenticated request
Rejections(r) ==
    IF Last(sent[r]).stage = "probe"
    THEN [kind : {"response"}, status : {403, 500}, www : {Undefined}]
    ELSE [kind : {"response"}, status : {401, 403, 500}, data : {NoEddiBody}]

IsInterpolatedStatus(a) == IsDigit(a) \/ a = "undefined"
NotInterpolatedStatus(a) == ~IsInterpolatedStatus(a)

\* how a failure is classified for the client: the status of the reply and
\* the fixed text of its message, without the status number interpolated
Classification(reply) ==
    <<reply.status, SelectSeq(reply.body.error, NotInterpolatedStatus)>>

\* C14: a transport failure (no HTTP response) of the probe or of the
\* authenticated request ends the request in an error reply whose
\* classification differs from the one given to a rejecting status of the
\* same call.
C14_TransportErrorDistinct ==
    \A r \in Reqs :
        (Settled(r, {"probe", "authenticated"}) /\ Last(got[r]).kind = "transport")
            => /\ pc[r] = "done"
               /\ Len(res[r]) = 1
               /\ res[r][1] = FailureReply(r, Last(got[r]))
               /\ \A o \in Rejections(r) :
                      Classification(res[r][1]) # Classification(FailureReply(r, o))

\* the i-th call of r was the probe and it has been answered
ProbeAnswered(r, i) ==
    /\ i <= Len(got[r])
    /\ sent[r][i].stage = "probe"
    /\ got[r][i].kind = "response"

\* C15: when the probe is answered with a 2xx status the fetch ends there:
\* that response is the result, no authenticated request is sent and the
\* request does not end in a failure reply.
C15_ProbeSuccessReturned ==
    \A r \in Reqs : \A i \in 1..Len(sent[r]) :
        (ProbeAnswered(r, i) /\ Is2xx(got[r][i].status))
            => /\ Len(sent[r]) = i
               /\ pc[r] = "done"
               /\ Len(res[r]) = 1
               /\ res[r][1].status # 500

\* C16: when the probe is answered with an error status other than 401 the
\* fetch fails at once: the request ends in an error reply and no
\* authenticated request is sent.
C16_ProbeRejectedStops ==
    \A r \in Reqs : \A i \in 1..Len(sent[r]) :
        (ProbeAnswered(r, i) /\ got[r][i].status >= 400 /\ got[r][i].status # 401)
            => /\ Len(sent[r]) = i
               /\ pc[r] = "done"
               /\ Len(res[r]) = 1
               /\ res[r][1].status >= 400
               /\ DOMAIN res[r][1].body = {"error"}

\* a probe that carried a well-formed challenge was answered 403 and the
\* request ended without an authenticated request
C16_Witness ==
    \E r \in Reqs :
        /\ build = "index.js#1"
        /\ pc[r] = "done"
        /\ Len(sent[r]) = 2
        /\ ProbeAnswered(r, 2)
        /\ got[r][2].status = 403
        /\ got[r][2].www = BareChallenge

\* C17: a WWW-Authenticate header made of the scheme token Digest and
\* key="value" pairs separated by comma and space is parsed without error,
\* and the parse gives realm, nonce, opaque and qop without their quotes.
C17_ChallengeParsed ==
    \A r \in Reqs : \A i \in 1..Len(sent[r]) :
        (ProbeAnswered(r, i) /\ got[r][i].www = DigestChallenge)
            => /\ ~ParseThrows(got[r][i].www)
               /\ ParseChallenge(got[r][i].www) =
                      [realm |-> <<"test@host">>, nonce |-> <<"abc123">>,
                       qop |-> <<"auth">>, opaque |-> <<"o1">>]

\* the challenge header h has no realm or no nonce
LacksRealmOrNonce(h) == Falsy(ParamOf(h, "realm")) \/ Falsy(ParamOf(h, "nonce"))

\* C18: when the 401 answer to the probe carries a challenge header without
\* realm or without nonce, the fetch fails before a digest is computed: the
\* request ends in an error reply and no authenticated request is sent.
C18_MalformedChallengeStops ==
    \A r \in Reqs : \A i \in 1..Len(sent[r]) :
        (/\ ProbeAnswered(r, i)
         /\ got[r][i].status = 401
         /\ ~Falsy(got[r][i].www)
         /\ LacksRealmOrNonce(got[r][i].www))
            => /\ Len(sent[r]) = i
               /\ pc[r] = "done"
               /\ Len(res[r]) = 1
               /\ res[r][1].status >= 400
               /\ DOMAIN res[r][1].body = {"error"}

\* the position of the first atom a of the header h
PosOf(h, a) == FirstOf({i \in 1..Len(h) : h[i] = a})

\* the text of the header h between the atoms a and b
Between(h, a, b) == SubSeq(h, PosOf(h, a) + 1, PosOf(h, b) - 1)

\* the parameters an Authorization header presents to the server
AuthParams(h) ==
    [username |-> Between(h, "Digest username=\"", "\", realm=\""),
     realm |-> Between(h, "\", realm=\"", "\", nonce=\""),
     nonce |-> Between(h, "\", nonce=\"", "\", uri=\""),
     uri |-> Between(h, "\", uri=\"", "\", qop="),
     qop |-> Between(h, "\", qop=", ", nc="),
     nc |-> Between(h, ", nc=", ", cnonce=\""),
     cnonce |-> Between(h, ", cnonce=\"", "\", response=\""),
     response |-> Between(h, "\", response=\"", "\", opaque=\""),
     opaque |-> SubSeq(h, PosOf(h, "\", opaque=\"") + 1, Len(h) - 1)]

\* the response that answers the parameters p for a method and a secret
ExpectedResponse(p, m, secret) ==
    LET HA1 == MD5(p.username \o <<":">> \o p.realm \o <<":">> \o secret)
        HA2 == MD5(m \o <<":">> \o p.uri)
    IN  MD5(HA1 \o <<":">> \o p.nonce \o <<":">> \o p.nc \o <<":">>
              \o p.cnonce \o <<":">> \o p.qop \o <<":">> \o HA2)

\* the positions of the authenticated requests r has issued so far
Authenticated(r) == {i \in 1..Len(sent[r]) : sent[r][i].stage = "authenticated"}

\* C19: the response an authenticated request presents is
\* hash(HA1:nonce:nc:cnonce:qop:HA2) with HA1 = hash(identity:realm:secret)
\* and HA2 = hash(method:path), for the identity, realm, nonce, nc, cnonce,
\* qop and path presented beside it, the configured secret and the method of
\* the request: a function of these inputs and of nothing else.
C19_DigestResponse ==
    \A r \in Reqs : \A i \in Authenticated(r) :
        LET p == AuthParams(sent[r][i].headers.Authorization)
        IN  p.response = ExpectedResponse(p, sent[r][i].method, env.MYENERGI_API_KEY)

\* an authenticated request answering the challenge of the known-answer
\* vector (realm test@host, nonce abc123, qop auth) has been sent
C19_Witness ==
    \E r \in Reqs : \E i \in Authenticated(r) :
        /\ build = "index.js#1"
        /\ got[r][i - 1].www = BareChallenge
        /\ AuthParams(sent[r][i].headers.Authorization).cnonce = <<"c2">>
        /\ AuthParams(sent[r][i].headers.Authorization).nonce = <<"abc123">>

C21_FullHandshake ==
    \A r \in Reqs : \A i \in Authenticated(r) :
        /\ i = 3
        /\ sent[r][1].stage = "discovery"
        /\ sent[r][2].stage = "probe"
        /\ sent[r][2].url = sent[r][3].url
        /\ ~Falsy(got[r][1].asn)
               => sent[r][3].url = <<"https://">> \o got[r][1].asn \o <<"/cgi-jstatus-E">>
        /\ ParamOf(got[r][2].www, "nonce") # Undefined
               => AuthParams(sent[r][3].headers.Authorization).nonce
                     = ParamOf(got[r][2].www, "nonce")

\* C22: the discovery call and the probe carry no credentials, and the
\* secret is in no outbound vendor-1 request: the authenticated request
\* carries it only inside the digest response.
C22_SecretNotSent ==
    \A r \in Reqs : \A i \in 1..Len(sent[r]) :
        LET q == sent[r][i] IN
        /\ q.stage \in {"discovery", "probe"}
               => /\ q.auth = NoAuth
                  /\ "Authorization" \notin DOMAIN q.headers
        /\ q.stage = "authenticated"
               => /\ q.auth = NoAuth
                  /\ \A f \in DOMAIN AuthParams(q.headers.Authorization) \ {"response"} :
                         ~Contains(AuthParams(q.headers.Authorization)[f],
                                   env.MYENERGI_API_KEY)
                  /\ AuthParams(q.headers.Authorization).response[1] = "md5("

\* the i-th call of r has settled as a failure: no HTTP response, or a
\* rejecting status (for the probe an error status other than 401, for the
\* data call any status outside 2xx)
StageFailed(r, i) ==
    /\ i <= Len(got[r])
    /\ \/ got[r][i].kind = "transport"
       \/ /\ sent[r][i].stage = "probe"
          /\ got[r][i].status >= 400 /\ got[r][i].status # 401
       \/ /\ sent[r][i].stage \in DataStages \cup {"signed"}
          /\ ~Is2xx(got[r][i].status)

\* C23: within one request each outbound stage is issued at most once; once
\* a stage has failed the request is answered with no further outbound
\* call; a vendor-2 request that is answered has issued exactly one call.
C23_NoRetry ==
    \A r \in Reqs :
        /\ \A i, j \in 1..Len(sent[r]) : sent[r][i].stage = sent[r][j].stage => i = j
        /\ \A i \in 1..Len(sent[r]) :
               StageFailed(r, i) => Len(sent[r]) = i /\ pc[r] = "done" /\ Len(res[r]) = 1
        /\ (route[r] = "/api/foxess" /\ pc[r] = "done" /\ ~ConfigMissing(r))
               => Len(sent[r]) = 1 /\ sent[r][1].stage = "signed"

\* a signed request failed without an HTTP response and the request ended
\* with that single call
C23_Witness ==
    \E r \in Reqs :
        /\ route[r] = "/api/foxess"
        /\ pc[r] = "done"
        /\ Len(sent[r]) = 1
        /\ got[r] = <<Transport>>
        /\ res[r][1].status = 500

\* C24: in every interleaving of two requests, what a request holds is what
\* its own calls produced: the address it keeps is the one its own discovery
\* returned, each authenticated request goes to that address and carries the
\* challenge parameters its own probe received, and each signed request is
\* signed over its own timestamp (both looked at while the call is awaited).
C24_Isolation ==
    \A r \in Reqs :
        /\ (Discovered(r) /\ pc[r] \in {"probe", "final"})
               => /\ loc[r].asn = got[r][1].asn
                  /\ loc[r].endpoint = sent[r][2].url
        /\ \A i \in {j \in Authenticated(r) : pc[r] = "final"} :
               LET p == AuthParams(sent[r][i].headers.Authorization)
                   h == got[r][i - 1].www
               IN  /\ sent[r][i].url = sent[r][i - 1].url
                   /\ sent[r][i].url = loc[r].endpoint
                   /\ (Discovered(r) /\ ~Falsy(got[r][1].asn))
                          => sent[r][i].url
                                = <<"https://">> \o got[r][1].asn \o <<"/cgi-jstatus-E">>
                   /\ \A f \in {"realm", "nonce", "opaque", "qop"} :
                          ParamOf(h, f) # Undefined => p[f] = ParamOf(h, f)
        /\ \A i \in 1..Len(sent[r]) :
               (sent[r][i].stage = "signed" /\ pc[r] = "fox")
                   => sent[r][i].headers.signature
                         = MD5(PathOf(sent[r][i].url) \o <<"\r\n">>
                                 \o sent[r][i].headers.token \o <<"\r\n">>
                                 \o sent[r][i].headers.timestamp)

\* two requests have each sent their authenticated request, to different
\* servers and in answer to different nonces
C24_Witness ==
    /\ build = "index.js#1"
    /\ \A r \in Reqs : pc[r] = "final" /\ Len(sent[r]) = 3
    /\ sent["r1"][3].url # sent["r2"][3].url
    /\ AuthParams(sent["r1"][3].headers.Authorization).nonce
          # AuthParams(sent["r2"][3].headers.Authorization).nonce

\* C25: a 2xx answer to the signed request whose body carries a non-zero
\* errno ends in an error reply, never in a 200 snapshot, with or without a
\* result object in the body.
C25_EmbeddedErrorNotSnapshot ==
    \A r \in Reqs :
        (/\ Succeeded(r, {"signed"})
         /\ Last(got[r]).data.errno # Absent
         /\ Last(got[r]).data.errno.v # 0)
            => /\ pc[r] = "done"
               /\ Len(res[r]) = 1
               /\ res[r][1].status >= 400
               /\ DOMAIN res[r][1].body = {"error"}

\* C26: when the first eddi record of a successful body has no diversion
\* value, the snapshot is sent with diversion_kw "0.00".
C26_MissingDiversionIsZero ==
    \A r \in Reqs :
        (/\ Succeeded(r, DataStages)
         /\ Last(got[r]).data.hasEddi
         /\ Last(got[r]).data.eddi # <<>>
         /\ Last(got[r]).data.eddi[1].div = Absent)
            => /\ pc[r] = "done"
               /\ Len(res[r]) = 1
               /\ res[r][1].status = 200
               /\ res[r][1].body.diversion_kw = Text(<<"0", ".", "0", "0">>)

\* a configuration value that is not set, or set to the empty string
NotSet(v) == v = <<"<undefined>">> \/ Len(v) = 0

\* a value the route of r requires is not set
RequiredNotSet(r) ==
    IF route[r] = "/api/myenergi"
    THEN NotSet(env.MYENERGI_EDDI_SN) \/ NotSet(env.MYENERGI_API_KEY)
    ELSE NotSet(env.FOX_ESS_API_KEY) \/ NotSet(env.FOX_ESS_INVERTER_SN)

\* C27: when a configuration value the route requires is missing, the
\* request is answered 500 with an error body and no outbound call is issued.
C27_MissingConfig ==
    \A r \in Reqs :
        (RequiredNotSet(r) /\ pc[r] \notin {"idle", "off"})
            => /\ pc[r] = "done"
               /\ sent[r] = <<>>
               /\ Len(res[r]) = 1
               /\ res[r][1].status = 500
               /\ DOMAIN res[r][1].body = {"error"}

\* a foxess request with the token set and an empty inverter serial has
\* been answered without an outbound call
C27_Witness ==
    \E r \in Reqs :
        /\ route[r] = "/api/foxess"
        /\ env.FOX_ESS_API_KEY = <<"tok">>
        /\ env.FOX_ESS_INVERTER_SN = <<>>
        /\ EndedWith(r, FoxNotConfigured)
        /\ sent[r] = <<>>

\* C28: when every outbound call settles (any status, malformed body or
\* transport failure), a request that has arrived is answered in the end,
\* and it is answered exactly once: the handler never ends without a reply
\* and never sends two.
C28_ExactlyOneResponse ==
    /\ [](\A r \in Reqs :
            /\ Len(res[r]) <= 1
            /\ pc[r] = "done" <=> Len(res[r]) = 1)
    /\ \A r \in Reqs :
           (pc[r] = "idle") ~> (pc[r] = "done" /\ Len(res[r]) = 1)

\* a request whose data call returned a body without the eddi key has been
\* answered once, by the catch of the handler
C28_Witness ==
    \E r \in Reqs :
        /\ Succeeded(r, DataStages)
        /\ ~Last(got[r]).data.hasEddi
        /\ pc[r] = "done"
        /\ Len(res[r]) = 1
        /\ res[r][1].status = 500

====
